---- MODULE Spec2Model ----
(***************************************************************************)
(* bpy_gen_structure.py: a floorplan grid is scanned by assemble_level,    *)
(* which stamps copies of a template panel into the host scene through the *)
(* host's selection-based operators; gen_structure then deletes the        *)
(* template and joins what is left.                                        *)
(*                                                                         *)
(* The host scene is a map from object ids to objects plus the current     *)
(* selection.  Locations are relative to the place where the template was  *)
(* imported; rotations are the accumulated rotate values, in degrees.      *)
(***************************************************************************)
EXTENDS Integers, FiniteSets, Sequences, TLC

VARIABLES plan, loaded, ndim, x, y, rule, pc, run, objects, selection,
          reads, tested, joined, error

vars == <<plan, loaded, ndim, x, y, rule, pc, run, objects, selection,
          reads, tested, joined, error>>

\* ------------------------------------------------------------------ bounds
\* A grid has at most MaxCells cells (rows * columns).
MaxCells == 8

\* ------------------------------------------------------- program constants
\* panel = bpy.context.selected_objects[0]: the id of the imported template.
panel == 1
\* value=-1.5708 (radians) of transform.rotate, in degrees.
QuarterTurn == 90

\* The cell values a floorplan file holds: occupied, variant, empty.
Values == {-1, 0, 1}

\* ---------------------------------------------------------- python helpers
len(a) == Cardinality(DOMAIN a)

range(n) == 0 .. (n - 1)

\* np.loadtxt squeezes: one row or one column gives a 1-D array, a single
\* number a 0-d array.
LoadTxtNdim(w, h) ==
    IF w = 1 /\ h = 1 THEN 0 ELSE IF w = 1 \/ h = 1 THEN 1 ELSE 2

Grids(w, h) == [range(w) -> [range(h) -> Values]]

\* The outer loop running over every row: range(len(plan)).
XRangeWhole == range(len(plan))

\* for x in range(len(plan) - 1)
XRange == range(len(plan) - 1)

\* for y in range(len(plan[0]) - 1)
YRange == range(len(plan[0]) - 1)

InRange(i, j) == i \in DOMAIN plan /\ j \in DOMAIN plan[i]

\* plan[i][j]; an index outside the grid raises IndexError, which the Test
\* actions detect through InRange before they use the value.
At(i, j) == IF InRange(i, j) THEN plan[i][j] ELSE 0

\* (plan[i][j] == 1 or plan[i][j] == -1)
Occupied(i, j) == At(i, j) = 1 \/ At(i, j) = -1

\* ------------------------------------------------- the four rule predicates
TopPredicate(i, j) == i = 0 /\ Occupied(i, j) /\ At(i, j + 1) = 1

\* The right rule accepting 1 only in its first cell.
RightPredicateNoVariant(i, j) == At(i, j) = 1 /\ At(i + 1, j) = 1

RightPredicate(i, j) == Occupied(i, j) /\ At(i + 1, j) = 1

LeftPredicate(i, j) == Occupied(i, j + 1) /\ At(i + 1, j + 1) = 1

\* The bottom rule without the test of its first cell.
BottomPredicateSecondOnly(i, j) == At(i + 1, j + 1) = 1

BottomPredicate(i, j) == Occupied(i + 1, j) /\ At(i + 1, j + 1) = 1

\* The cells each condition reads, with python's short-circuit evaluation:
\* the second cell is read only when the first one is occupied.
TopReads(i, j) ==
    IF i = 0
    THEN {<<i, j>>} \cup (IF Occupied(i, j) THEN {<<i, j + 1>>} ELSE {})
    ELSE {}

RightReads(i, j) ==
    {<<i, j>>} \cup (IF Occupied(i, j) THEN {<<i + 1, j>>} ELSE {})

LeftReads(i, j) ==
    {<<i, j + 1>>} \cup (IF Occupied(i, j + 1) THEN {<<i + 1, j + 1>>} ELSE {})

BottomReads(i, j) ==
    {<<i + 1, j>>} \cup (IF Occupied(i + 1, j) THEN {<<i + 1, j + 1>>} ELSE {})

\* The translate values of the four rules.
TopValue(i, j) == <<i, 2 * j, 0>>

\* The right rule translating as the left rule does.
RightValueAsLeft(i, j) == <<2 * i + 1, 2 * j + 1, 0>>

RightValue(i, j) == <<2 * i + 1, 2 * j - 1, 0>>

LeftValue(i, j) == <<2 * i + 1, 2 * j + 1, 0>>

BottomValue(i, j) == <<2 * i + 2, 2 * j, 0>>

\* ------------------------------------------------------------ host scene
Add(u, v) == <<u[1] + v[1], u[2] + v[2], u[3] + v[3]>>

MaxId(s) == IF s = {} THEN 0 ELSE CHOOSE m \in s : \A k \in s : k <= m

Rank(s, i) == Cardinality({k \in s : k < i})

\* The template as imported: untransformed, copied from nothing.
Template ==
    [location |-> <<0, 0, 0>>, rotation |-> 0, source |-> 0,
     rule |-> "none", at |-> <<0, 0>>, run |-> 0]

\* The ids the copies of the selected objects get.
NewIds(objs, sel) ==
    (MaxId(DOMAIN objs) + 1) .. (MaxId(DOMAIN objs) + Cardinality(sel))

\* object.duplicate: one independent copy of every selected object; a copy
\* starts with its source's location and rotation.
Duplicated(objs, sel) ==
    LET base == MaxId(DOMAIN objs)
        src(k) == CHOOSE i \in sel : Rank(sel, i) = k - base - 1
    IN  [k \in DOMAIN objs \cup NewIds(objs, sel) |->
            IF k \in DOMAIN objs
            THEN objs[k]
            ELSE [objs[src(k)] EXCEPT !.source = src(k), !.rule = rule,
                                      !.at = <<x, y>>, !.run = run]]

\* transform.translate: every selected object moves by v.
Translated(objs, sel, v) ==
    [k \in DOMAIN objs |->
        IF k \in sel THEN [objs[k] EXCEPT !.location = Add(@, v)] ELSE objs[k]]

\* transform.rotate about Z: every selected object turns by deg.
Rotated(objs, sel, deg) ==
    [k \in DOMAIN objs |->
        IF k \in sel THEN [objs[k] EXCEPT !.rotation = @ + deg] ELSE objs[k]]

\* -------------------------------------------------------------- initially
InitScene ==
    /\ loaded = plan
    /\ x = 0
    /\ y = 0
    /\ rule = "none"
    /\ pc = "call"
    /\ run = 1
    /\ objects = [k \in {panel} |-> Template]
    /\ selection = {panel}
    /\ reads = {}
    /\ tested = {}
    /\ joined = {}
    /\ error = "none"

\* main with a floorplan that meets the contract: W >= 2 and H >= 2.
Init ==
    /\ \E w \in 2 .. MaxCells, h \in 2 .. MaxCells :
          /\ w * h <= MaxCells
          /\ plan \in Grids(w, h)
    /\ ndim = 2
    /\ InitScene

\* Any rectangular floorplan, one row or one column included; such a plan
\* reaches assemble_level either as a 2-D array or squeezed by np.loadtxt.
InitAny ==
    /\ \E w \in 1 .. MaxCells, h \in 1 .. MaxCells :
          /\ w * h <= MaxCells
          /\ plan \in Grids(w, h)
          /\ ndim \in {2, LoadTxtNdim(w, h)}
    /\ InitScene

\* ------------------------------------------------------- assemble_level
\* The rule tested after r at one scan position; after bottom the loop
\* headers advance.
AfterRule(r) ==
    CASE r = "top" -> <<"right", "test">>
      [] r = "right" -> <<"left", "test">>
      [] r = "left" -> <<"bottom", "test">>
      [] r = "bottom" -> <<"bottom", "next">>

\* One if-condition of the loop body: rd are the cells it reads, cond is
\* its value, examined tells whether the cell comparison was reached.
Test(r, rd, cond, examined) ==
    /\ pc = "test"
    /\ rule = r
    /\ reads' = reads \cup rd
    /\ tested' = IF examined THEN tested \cup {<<r, x, y>>} ELSE tested
    /\ IF \E c \in rd : ~InRange(c[1], c[2])
       THEN /\ pc' = "raised"
            /\ error' = "IndexError"
            /\ rule' = rule
       ELSE /\ error' = error
            /\ IF cond
               THEN /\ pc' = "deselect"
                    /\ rule' = rule
               ELSE /\ rule' = AfterRule(r)[1]
                    /\ pc' = AfterRule(r)[2]
    /\ UNCHANGED <<plan, loaded, ndim, x, y, run, objects, selection, joined>>

\* assemble_level(plan, panel) is entered with a 2-D plan: the two range()
\* calls; an empty range skips the body.
Call ==
    /\ pc = "call"
    /\ ndim = 2
    /\ IF XRange = {} \/ YRange = {}
       THEN /\ pc' = "return"
            /\ UNCHANGED <<x, y, rule>>
       ELSE /\ x' = 0
            /\ y' = 0
            /\ rule' = "top"
            /\ pc' = "test"
    /\ UNCHANGED <<plan, loaded, ndim, run, objects, selection, reads, tested,
                   joined, error>>

\* if x == 0 and (plan[x][y] == 1 or plan[x][y] == -1) and plan[x][y + 1] == 1
TestTop == Test("top", TopReads(x, y), TopPredicate(x, y), x = 0)

\* if (plan[x][y] == 1 or plan[x][y] == -1) and plan[x + 1][y] == 1
TestRight == Test("right", RightReads(x, y), RightPredicate(x, y), TRUE)

\* if (plan[x][y + 1] == 1 or plan[x][y + 1] == -1) and plan[x + 1][y + 1] == 1
TestLeft == Test("left", LeftReads(x, y), LeftPredicate(x, y), TRUE)

\* if (plan[x + 1][y] == 1 or plan[x + 1][y] == -1) and plan[x + 1][y + 1] == 1
TestBottom == Test("bottom", BottomReads(x, y), BottomPredicate(x, y), TRUE)

\* The rule blocks without their select_all(action='DESELECT').
DeselectAllOmitted ==
    /\ pc = "deselect"
    /\ pc' = "select"
    /\ UNCHANGED <<plan, loaded, ndim, x, y, rule, run, objects, selection,
                   reads, tested, joined, error>>

\* bpy.ops.object.select_all(action='DESELECT')
DeselectAll ==
    /\ pc = "deselect"
    /\ selection' = {}
    /\ pc' = "select"
    /\ UNCHANGED <<plan, loaded, ndim, x, y, rule, run, objects, reads, tested,
                   joined, error>>

\* The rule blocks without their panel.select_set(True).
SelectPanelOmitted ==
    /\ pc = "select"
    /\ pc' = "duplicate"
    /\ UNCHANGED <<plan, loaded, ndim, x, y, rule, run, objects, selection,
                   reads, tested, joined, error>>

\* panel.select_set(True)
SelectPanel ==
    /\ pc = "select"
    /\ selection' = selection \cup {panel}
    /\ pc' = "duplicate"
    /\ UNCHANGED <<plan, loaded, ndim, x, y, rule, run, objects, reads, tested,
                   joined, error>>

\* duplicate_move(OBJECT_OT_duplicate=..., TRANSFORM_OT_translate={"value": v})
\* of the top and bottom rules: the copies become the selection and move.
DuplicateMoveTranslate ==
    /\ pc = "duplicate"
    /\ rule \in {"top", "bottom"}
    /\ LET v == IF rule = "top" THEN TopValue(x, y) ELSE BottomValue(x, y)
           copies == NewIds(objects, selection)
       IN  /\ objects' = Translated(Duplicated(objects, selection), copies, v)
           /\ selection' = copies
    /\ rule' = AfterRule(rule)[1]
    /\ pc' = AfterRule(rule)[2]
    /\ UNCHANGED <<plan, loaded, ndim, x, y, run, reads, tested, joined, error>>

\* duplicate_move(OBJECT_OT_duplicate=...) of the right and left rules: the
\* copies become the selection, in place.
DuplicateMove ==
    /\ pc = "duplicate"
    /\ rule \in {"right", "left"}
    /\ objects' = Duplicated(objects, selection)
    /\ selection' = NewIds(objects, selection)
    /\ pc' = "rotate"
    /\ UNCHANGED <<plan, loaded, ndim, x, y, rule, run, reads, tested, joined,
                   error>>

\* bpy.ops.transform.rotate(value=-1.5708, orient_axis='Z')
Rotate ==
    /\ pc = "rotate"
    /\ objects' = Rotated(objects, selection, -QuarterTurn)
    /\ pc' = "translate"
    /\ UNCHANGED <<plan, loaded, ndim, x, y, rule, run, selection, reads, tested,
                   joined, error>>

\* bpy.ops.transform.translate(value=...) of the right and left rules.
Translate ==
    /\ pc = "translate"
    /\ LET v == IF rule = "right" THEN RightValue(x, y) ELSE LeftValue(x, y)
       IN  objects' = Translated(objects, selection, v)
    /\ rule' = AfterRule(rule)[1]
    /\ pc' = AfterRule(rule)[2]
    /\ UNCHANGED <<plan, loaded, ndim, x, y, run, selection, reads, tested,
                   joined, error>>

\* The two for headers: the next y, else the next x, else the function ends.
NextIter ==
    /\ pc = "next"
    /\ IF y + 1 \in YRange
       THEN /\ y' = y + 1
            /\ rule' = "top"
            /\ pc' = "test"
            /\ x' = x
       ELSE IF x + 1 \in XRange
            THEN /\ x' = x + 1
                 /\ y' = 0
                 /\ rule' = "top"
                 /\ pc' = "test"
            ELSE /\ pc' = "return"
                 /\ UNCHANGED <<x, y, rule>>
    /\ UNCHANGED <<plan, loaded, ndim, run, objects, selection, reads, tested,
                   joined, error>>

\* ---------------------------------------------------------- gen_structure
\* assemble_level returns; remove template: select_all(action='DESELECT')
RemoveDeselect ==
    /\ pc = "return"
    /\ selection' = {}
    /\ pc' = "rm_select"
    /\ UNCHANGED <<plan, loaded, ndim, x, y, rule, run, objects, reads, tested,
                   joined, error>>

\* gen_structure without the select_set(True) of the template.
RemoveSelectOmitted ==
    /\ pc = "rm_select"
    /\ pc' = "rm_delete"
    /\ UNCHANGED <<plan, loaded, ndim, x, y, rule, run, objects, selection,
                   reads, tested, joined, error>>

\* bpy.data.objects[panel.name].select_set(True)
RemoveSelect ==
    /\ pc = "rm_select"
    /\ selection' = selection \cup {panel}
    /\ pc' = "rm_delete"
    /\ UNCHANGED <<plan, loaded, ndim, x, y, rule, run, objects, reads, tested,
                   joined, error>>

\* bpy.ops.object.delete(): the selected objects leave the scene.
Delete ==
    /\ pc = "rm_delete"
    /\ objects' = [k \in DOMAIN objects \ selection |-> objects[k]]
    /\ selection' = {}
    /\ pc' = "join_select"
    /\ UNCHANGED <<plan, loaded, ndim, x, y, rule, run, reads, tested, joined,
                   error>>

\* join all panels: select_all(action='SELECT')
SelectAll ==
    /\ pc = "join_select"
    /\ selection' = DOMAIN objects
    /\ pc' = "join"
    /\ UNCHANGED <<plan, loaded, ndim, x, y, rule, run, objects, reads, tested,
                   joined, error>>

\* bpy.ops.object.join(): the selected objects become the parts of one mesh.
Join ==
    /\ pc = "join"
    /\ joined' = selection
    /\ pc' = "done"
    /\ UNCHANGED <<plan, loaded, ndim, x, y, rule, run, objects, selection,
                   reads, tested, error>>

Next ==
    \/ Call
    \/ TestTop
    \/ TestRight
    \/ TestLeft
    \/ TestBottom
    \/ DeselectAll
    \/ SelectPanel
    \/ DuplicateMoveTranslate
    \/ DuplicateMove
    \/ Rotate
    \/ Translate
    \/ NextIter
    \/ RemoveDeselect
    \/ RemoveSelect
    \/ Delete
    \/ SelectAll
    \/ Join

Spec == Init /\ [][Next]_vars

\* ------------------------------------------- plans outside the contract
\* A plan squeezed by np.loadtxt: len() of a 0-d array (line 32) or of the
\* scalar plan[0] (line 33) raises TypeError.
LenOfScalar ==
    /\ pc = "call"
    /\ ndim < 2
    /\ pc' = "raised"
    /\ error' = "TypeError"
    /\ UNCHANGED <<plan, loaded, ndim, x, y, rule, run, objects, selection,
                   reads, tested, joined>>

NextAny == Next \/ LenOfScalar

SpecAny == InitAny /\ [][NextAny]_vars

\* ------------------------------------------------- the planner called twice
\* A second call of assemble_level on the same grid and template.
CallAgain ==
    /\ pc = "return"
    /\ run = 1
    /\ run' = run + 1
    /\ pc' = "call"
    /\ UNCHANGED <<plan, loaded, ndim, x, y, rule, objects, selection, reads,
                   tested, joined, error>>

NextTwice == Next \/ CallAgain

SpecTwice == Init /\ [][NextTwice]_vars

\* A second call of assemble_level on the grid with one cell changed from 1
\* to -1.  Run 1 has the cell at 1 and run 2 at -1, so comparing the two
\* runs covers the change in both directions.
Flipped(c) ==
    [i \in DOMAIN plan |->
        [j \in DOMAIN plan[i] |->
            IF <<i, j>> = c THEN -plan[i][j] ELSE plan[i][j]]]

CallFlipped ==
    /\ pc = "return"
    /\ run = 1
    /\ \E i \in DOMAIN plan :
          \E j \in DOMAIN plan[i] :
             /\ plan[i][j] = 1
             /\ plan' = Flipped(<<i, j>>)
    /\ run' = run + 1
    /\ pc' = "call"
    /\ UNCHANGED <<loaded, ndim, x, y, rule, objects, selection, reads, tested,
                   joined, error>>

NextFlip == Next \/ CallFlipped

SpecFlip == Init /\ [][NextFlip]_vars

\* ================================================================ claims
\* What the claims speak about, stated from the grid alone.
W == len(plan)

H == len(plan[0])

Rules == {"top", "right", "left", "bottom"}

Cells == {<<i, j>> \in range(W) \X range(H) : TRUE}

Copies == DOMAIN objects \ {panel}

CopiesOf(r) == {k \in Copies : objects[k].run = r}

Value(c) == plan[c[1]][c[2]]

IsOccupied(c) == Value(c) \in {1, -1}

\* The pair of cells a rule compares at scan position (i, j).
EdgeOf(r, i, j) ==
    CASE r = "top" -> <<<<i, j>>, <<i, j + 1>>>>
      [] r = "right" -> <<<<i, j>>, <<i + 1, j>>>>
      [] r = "left" -> <<<<i, j + 1>>, <<i + 1, j + 1>>>>
      [] r = "bottom" -> <<<<i + 1, j>>, <<i + 1, j + 1>>>>

EdgeOfCopy(k) == EdgeOf(objects[k].rule, objects[k].at[1], objects[k].at[2])

\* The pairs of von Neumann-adjacent cells, each once, lower index first.
AdjacentPairs ==
    {e \in Cells \X Cells :
        \/ e[2] = <<e[1][1] + 1, e[1][2]>>
        \/ e[2] = <<e[1][1], e[1][2] + 1>>}

SatisfyingPairs == {e \in AdjacentPairs : IsOccupied(e[1]) /\ Value(e[2]) = 1}

\* The placement the table gives a rule at (i, j): translation, rotation.
TablePlacement(r, i, j) ==
    CASE r = "top" -> <<<<i, 2 * j, 0>>, 0>>
      [] r = "right" -> <<<<2 * i + 1, 2 * j - 1, 0>>, -90>>
      [] r = "left" -> <<<<2 * i + 1, 2 * j + 1, 0>>, -90>>
      [] r = "bottom" -> <<<<2 * i + 2, 2 * j, 0>>, 0>>

\* The predicate the table gives a rule at (i, j).
TablePredicate(r, i, j) ==
    /\ r = "top" => i = 0
    /\ IsOccupied(EdgeOf(r, i, j)[1])
    /\ Value(EdgeOf(r, i, j)[2]) = 1

Placement(k) == <<objects[k].location, objects[k].rotation>>

\* A copy whose rotate and translate are not pending any more.
Settled(k) == ~(k \in selection /\ pc \in {"rotate", "translate"})

\* The placements of run r in the order they were made.
PlacementSeq(r) ==
    [n \in 1 .. Cardinality(CopiesOf(r)) |->
        Placement(CHOOSE k \in CopiesOf(r) : Rank(CopiesOf(r), k) = n - 1)]

\* The placements of run r as a multiset.
PlacementBag(r) ==
    [p \in {Placement(k) : k \in CopiesOf(r)} |->
        Cardinality({k \in CopiesOf(r) : Placement(k) = p})]

\* C1: when the scan of a W x H grid (W, H >= 2) has ended, the number of
\* placements equals the number of adjacent cell pairs, counted once each,
\* whose first cell is 1 or -1 and whose second cell is 1, and every
\* placement belongs to such a pair.
C1_PlacementsEqualSatisfyingPairs ==
    pc = "return" =>
        /\ Cardinality(Copies) = Cardinality(SatisfyingPairs)
        /\ \A k \in Copies : EdgeOfCopy(k) \in SatisfyingPairs

\* C2: when the scan has ended, every pair of adjacent cells has been
\* examined by exactly one rule at exactly one scan position, and no two
\* placements have the same translation and the same rotation.
C2_EachEdgeOneRule ==
    pc = "return" =>
        /\ \A e \in AdjacentPairs :
              Cardinality({t \in tested : EdgeOf(t[1], t[2], t[3]) = e}) = 1
        /\ \A k \in Copies : \A m \in Copies :
              k # m => Placement(k) # Placement(m)

\* C3: a grid with fewer than 2 rows or fewer than 2 columns never gets
\* past the call of assemble_level: it is rejected there, with an
\* InvalidGridError, and no run on it returns normally.
C3_InvalidGridRejected ==
    (W < 2 \/ H < 2) =>
        /\ pc \in {"call", "raised"}
        /\ pc = "raised" => error = "InvalidGridError"

\* C5: every placement has the translation and rotation the table gives
\* the rule that made it at its scan position, a top placement is made at
\* x = 0 only, and when the scan has ended each rule has made exactly one
\* placement at each position where its predicate is true and none elsewhere.
C5_PlacementMatchesRule ==
    /\ \A k \in Copies :
          /\ Settled(k) =>
                Placement(k) =
                    TablePlacement(objects[k].rule, objects[k].at[1], objects[k].at[2])
          /\ objects[k].rule = "top" => objects[k].at[1] = 0
    /\ pc = "return" =>
          \A r \in Rules : \A i \in range(W - 1) : \A j \in range(H - 1) :
             Cardinality({k \in CopiesOf(run) :
                             /\ objects[k].rule = r
                             /\ objects[k].at = <<i, j>>})
                = IF TablePredicate(r, i, j) THEN 1 ELSE 0

\* C5 witness: a finished scan in which each of the four rules has placed.
C5_Witness ==
    /\ pc = "return"
    /\ \A r \in Rules : \E k \in Copies : objects[k].rule = r
    /\ \E k \in Copies : objects[k].at[1] > 0

\* C6: both cells of the pair a placement was made for hold 1 or -1, and a
\* grid of empty cells only has no placement.
C6_NoPlacementAtEmptyCell ==
    /\ \A k \in Copies :
          IsOccupied(EdgeOfCopy(k)[1]) /\ IsOccupied(EdgeOfCopy(k)[2])
    /\ (\A c \in Cells : Value(c) = 0) => Copies = {}

\* C6 witness: a finished scan that placed something and also examined a
\* pair with a cell that is neither 1 nor -1.
C6_Witness ==
    /\ pc = "return"
    /\ Copies # {}
    /\ \E t \in tested :
          \/ ~IsOccupied(EdgeOf(t[1], t[2], t[3])[1])
          \/ ~IsOccupied(EdgeOf(t[1], t[2], t[3])[2])

\* The cell in which the grid of the second call differs from the loaded one.
FlippedCell == CHOOSE c \in Cells : Value(c) # loaded[c[1]][c[2]]

\* A rule compares cell c as the second cell of a pair whose first cell
\* holds 1 or -1.
SecondOfOccupied(c) ==
    \E e \in AdjacentPairs : e[2] = c /\ IsOccupied(e[1])

\* C4 as stated: after a second scan on the grid with one cell changed
\* between 1 and -1, the sequence of placements equals the first scan's.
C4_FlipLeavesPlacements ==
    (run = 2 /\ pc = "return" /\ plan # loaded) =>
        PlacementSeq(1) = PlacementSeq(2)

\* C4 amended: -1 counts as 1 in the first cell of a pair only.  Changing a
\* cell between 1 and -1 leaves the sequence of placements unchanged exactly
\* when the cell is not the second cell of a pair whose first cell is 1 or
\* -1; as a second cell, -1 gets no placement.
C4_FlipFirstCellOnly ==
    (run = 2 /\ pc = "return" /\ plan # loaded) =>
        (PlacementSeq(1) = PlacementSeq(2) <=> ~SecondOfOccupied(FlippedCell))

\* C4 witness: the second scan has ended, the changed cell is no second
\* cell of an occupied first cell, and a placement was made for a pair whose
\* first cell is the changed one.
C4_Witness ==
    /\ run = 2
    /\ pc = "return"
    /\ plan # loaded
    /\ ~SecondOfOccupied(FlippedCell)
    /\ \E k \in CopiesOf(2) : EdgeOfCopy(k)[1] = FlippedCell

\* C7: the grid is the loaded one in every state, and when the second scan
\* on it has ended its placements equal the first scan's as multisets.
C7_SecondRunSamePlacements ==
    /\ plan = loaded
    /\ (run = 2 /\ pc = "return") => PlacementBag(1) = PlacementBag(2)

\* C7 witness: a second scan has ended after placing at least two panels.
C7_Witness ==
    /\ run = 2
    /\ pc = "return"
    /\ Cardinality(CopiesOf(2)) >= 2

\* The last cell of the grid.
Corner == <<W - 1, H - 1>>

\* C8 as stated: every cell read lies in the grid, the scan stays within
\* 0..W-2 and 0..H-2, and when the scan has ended every cell has been read.
C8_EveryCellRead ==
    /\ reads \subseteq Cells
    /\ pc \in {"test", "deselect", "select", "duplicate", "rotate",
               "translate", "next"} => x \in 0 .. (W - 2) /\ y \in 0 .. (H - 2)
    /\ pc = "return" => reads = Cells

\* C8 amended: every cell read lies in the grid, the scan stays within
\* 0..W-2 and 0..H-2, and when the scan has ended every cell but the last,
\* (W-1, H-1), has been read; the last cell has been read exactly when
\* (W-2, H-1) or (W-1, H-2) holds 1 or -1, because the second cell of a
\* condition is not read when the first is not occupied.
C8_ReadsInRange ==
    /\ reads \subseteq Cells
    /\ pc \in {"test", "deselect", "select", "duplicate", "rotate",
               "translate", "next"} => x \in 0 .. (W - 2) /\ y \in 0 .. (H - 2)
    /\ pc = "return" =>
          /\ Cells \ {Corner} \subseteq reads
          /\ Corner \in reads <=>
                \/ IsOccupied(<<W - 2, H - 1>>)
                \/ IsOccupied(<<W - 1, H - 2>>)

\* C8 witness: a scan has ended without reading the last cell.
C8_Witness ==
    /\ pc = "return"
    /\ Corner \notin reads
    /\ Cells \ {Corner} \subseteq reads

\* The rule instances whose predicate is true: the placements a scan makes.
Fired ==
    {f \in Rules \X range(W - 1) \X range(H - 1) :
        TablePredicate(f[1], f[2], f[3])}

\* C9: the template is gone only once the scan has ended and made every
\* placement, nothing is duplicated without it, and the joined objects are
\* the copies without the template.
C9_TemplateDeletedAfterScan ==
    /\ panel \notin DOMAIN objects =>
          /\ pc \in {"join_select", "join", "done"}
          /\ {<<objects[k].rule, objects[k].at[1], objects[k].at[2]>> :
                 k \in Copies} = Fired
    /\ pc \in {"join", "done"} => panel \notin selection
    /\ pc = "done" => panel \notin joined /\ joined = Copies

\* C9 witness: the join has happened on at least two copies.
C9_Witness ==
    /\ pc = "done"
    /\ Cardinality(joined) >= 2
    /\ panel \notin DOMAIN objects

\* C10: at every duplication the selection is the template alone, every
\* copy was made from the template, while a rotate or translate is pending
\* the selection is the copy made last, and the template keeps its location
\* and rotation.
C10_CopiesFromTemplate ==
    /\ pc = "duplicate" => selection = {panel}
    /\ \A k \in Copies : objects[k].source = panel
    /\ pc \in {"rotate", "translate"} =>
          /\ selection = {MaxId(DOMAIN objects)}
          /\ selection \subseteq Copies
    /\ panel \in DOMAIN objects => objects[panel] = Template

\* C10 witness: a duplication is about to happen after earlier copies were
\* made and transformed.
C10_Witness ==
    /\ pc = "duplicate"
    /\ \E k \in Copies : objects[k].rotation # 0
    /\ \E k \in Copies : objects[k].rotation = 0

====
